---- MODULE Spec2Model ----
(***************************************************************************)
(* Model of get_data.py: the NBA career-stats collector.                   *)
(*                                                                         *)
(* One sequential process: main() runs precheck_and_setup, setup_database  *)
(* and collect_all_stats.  collect_all_stats walks the roster, skips the   *)
(* players that already have a row, fetches the others under a retry       *)
(* policy, saves the rows with INSERT OR REPLACE, logs failures, sleeps a  *)
(* jitter delay after every fetched player and a cooldown after every      *)
(* BATCH_SIZE-th roster position.                                          *)
(*                                                                         *)
(* The upstream API, the file system and sqlite are the environment: the   *)
(* outcome of every request, of the folder creation, of the connection and *)
(* of the schema statement is a nondeterministic input.                    *)
(***************************************************************************)
EXTENDS Integers, Sequences, FiniteSets, Bags, TLC

\* ---------------------------------------------------------------- bounds
\* longest of the short rosters returned by players.get_players()
MaxRoster == 2
\* most rows in one career-stats result
MaxRows == 2
\* most save_player_data calls in the function-level specification SaveSpec
MaxCalls == 2
\* largest roster size and batch size given to update_progress on its own
MaxTotal == 6
MaxBatch == 3
\* number of consecutive runs of the script
MaxRuns == 2

\* ----------------------------------------------------- program constants
MAX_RETRIES == 3
INITIAL_TIMEOUT == 20
BACKOFF_FACTOR == 2
BATCH_SIZE == 500
COOLDOWN_TIME == 60
\* the row width save_player_data accepts
ROW_WIDTH == 27
\* the player_id tag "MAIN" of the top-level handler's log entry; roster ids
\* are positive, so 0 is distinct from all of them
MAIN == 0

\* ------------------------------------------------------------ input sets
Names == <<"A", "B", "C", "D", "E">>

\* the full_name of the i-th roster entry
Name(i) == IF i <= Len(Names) THEN Names[i] ELSE ToString(i)

\* players.get_players(): N records with distinct ids, in roster order
AllPlayers(n) == [i \in 1..n |-> [id |-> 100 + i, full_name |-> Name(i)]]

\* rosters of a few players, where every way through the loop is explored
ShortRosters == {AllPlayers(n) : n \in 0..MaxRoster}

\* the roster that reaches the batch boundary: exactly BATCH_SIZE players
LongRosters == {AllPlayers(BATCH_SIZE)}

Rosters == ShortRosters \cup LongRosters

\* Python's None (or a float NaN) in a cell: sqlite3 binds it as NULL
None == "None"

\* what the SEASON_ID cell of a well-formed row holds: a season, or nothing
Seasons == {"2019-20", None}

\* a raw upstream row: a list of w cells whose second cell (row[1] in
\* Python) is the season id
MkRow(w, season, cell) == [i \in 1..w |-> IF i = 2 THEN season ELSE cell]

\* rows of the accepted width whose cells sqlite3 can bind
GoodRows(cells) == {MkRow(ROW_WIDTH, s, c) : s \in Seasons, c \in cells}

\* a row of a wrong width; one cell too long is the wrong width that could
\* be mapped to the 27 columns if it were not rejected
WideRow == MkRow(ROW_WIDTH + 1, "2019-20", "v0")

\* Unbindable stands for a value sqlite3 cannot bind as a parameter:
\* cursor.execute raises on a row that holds it
Unbindable == "unbindable"
BadRow == MkRow(ROW_WIDTH, "2020-21", Unbindable)

\* the rows given to save_player_data in SaveSpec: the well-formed rows, the
\* season row again with other figures, a wide row and an unbindable one
Rows ==
    GoodRows({"v0"}) \cup {MkRow(ROW_WIDTH, "2019-20", "v1"), WideRow, BadRow}

RECURSIVE SeqsUpTo(_, _)
SeqsUpTo(S, n) ==
    IF n = 0 THEN {<<>>}
    ELSE LET shorter == SeqsUpTo(S, n - 1)
         IN  shorter \cup {Append(q, x) : q \in {t \in shorter : Len(t) = n - 1}, x \in S}

\* every list of at most MaxRows rows: the batches of SaveSpec
Batches == SeqsUpTo(Rows, MaxRows)

\* stats_df.values.tolist() of one result; <<>> is the empty frame.  The
\* loop never looks at a cell beyond binding it, so its results carry one
\* bindable cell value, in a row with a season id and in a row without one.
LoopRows == GoodRows({"v0"}) \cup {WideRow, BadRow}

LoopBatches == SeqsUpTo(LoopRows, MaxRows)

\* what one PlayerCareerStats request can do
FetchResults ==
    {[kind |-> "ok", rows |-> b] : b \in LoopBatches}
    \cup {[kind |-> k, rows |-> <<>>] : k \in {"transient", "http", "other"}}

\* ------------------------------------------------------------- the store
\* a stored record is the 27-tuple bound by the INSERT statement; a table is
\* a bag of records, as player_stats is a rowid table
Key(rec) == <<rec[1], rec[3]>>

\* the distinct records of a table
Recs(table) == BagToSet(table)

\* the table without the records of the set gone
Without(table, gone) ==
    [r \in Recs(table) \ gone |-> table[r]]

\* mutant: the table's primary key is the season alone
InsertOrReplace_by_season(table, rec) ==
    Without(table, {r \in Recs(table) : r[3] = rec[3]}) (+) SetToBag({rec})

\* INSERT OR REPLACE under PRIMARY KEY (player_id, season_id): the row in
\* conflict is deleted and the new one inserted.  The key columns are not
\* declared NOT NULL, and a NULL season_id is in conflict with no row, so
\* such a row is added beside whatever the table holds.
InsertOrReplace(table, rec) ==
    IF rec[3] = None
    THEN table (+) SetToBag({rec})
    ELSE Without(table, {r \in Recs(table) : Key(r) = Key(rec)})
             (+) SetToBag({rec})

\* the parameter tuple save_player_data builds from one row
Params(player_id, player_name, row) ==
    <<player_id, player_name, row[2]>> \o SubSeq(row, 4, ROW_WIDTH)

\* player_id is an int taken from the roster; every other parameter is a
\* cell or the name
CanBind(params) == \A i \in 2..Len(params) : params[i] # Unbindable

\* mutant: the width test rejects only rows that are too short
RECURSIVE SaveLoop_short(_, _, _, _, _)
SaveLoop_short(view, player_id, player_name, rows, i) ==
    IF i > Len(rows) THEN [view |-> view, raised |-> FALSE]
    ELSE IF Len(rows[i]) < ROW_WIDTH
         THEN SaveLoop_short(view, player_id, player_name, rows, i + 1)
         ELSE LET params == Params(player_id, player_name, rows[i])
              IN  IF ~CanBind(params)
                  THEN [view |-> view, raised |-> TRUE]
                  ELSE SaveLoop_short(InsertOrReplace(view, params),
                                      player_id, player_name, rows, i + 1)

\* the for loop of save_player_data from row i on: the connection's view
\* after the loop, and whether cursor.execute raised
RECURSIVE SaveLoop(_, _, _, _, _)
SaveLoop(view, player_id, player_name, rows, i) ==
    IF i > Len(rows) THEN [view |-> view, raised |-> FALSE]
    ELSE IF Len(rows[i]) # ROW_WIDTH
         THEN SaveLoop(view, player_id, player_name, rows, i + 1)
         ELSE LET params == Params(player_id, player_name, rows[i])
              IN  IF ~CanBind(params)
                  THEN [view |-> view, raised |-> TRUE]
                  ELSE SaveLoop(InsertOrReplace(view, params),
                                player_id, player_name, rows, i + 1)

\* save_player_data on a connection conn = [view, db]: view is the table as
\* the connection sees it (pending statements included), db the committed
\* content.  conn.commit() runs only when the loop did not raise.
save_player_data(conn, player_id, player_name, rows) ==
    LET r == SaveLoop(conn.view, player_id, player_name, rows, 1)
    IN  [view   |-> r.view,
         db     |-> IF r.raised THEN conn.db ELSE r.view,
         raised |-> r.raised]

\* mutant: the test on fetchone() inverted
player_exists_inverted(conn, player_id) ==
    ~\E r \in Recs(conn.view) : r[1] = player_id

player_exists(conn, player_id) == \E r \in Recs(conn.view) : r[1] = player_id

\* rows left in the table by earlier runs: one old season per stored player
OldRecord(p) == Params(p.id, p.full_name, MkRow(ROW_WIDTH, "2019-20", "v0"))

\* the roster positions an earlier run is known to have collected: none of
\* a short roster, all before the BATCH_SIZE-th of a long one (a resumed run)
Resumed(roster) ==
    IF Len(roster) >= BATCH_SIZE THEN 1..(BATCH_SIZE - 1) ELSE {}

InitStores(roster) ==
    LET old == {OldRecord(roster[i]) : i \in Resumed(roster)}
        rest == {OldRecord(roster[i]) : i \in (1..Len(roster)) \ Resumed(roster)}
    IN  {SetToBag(old \cup more) : more \in SUBSET rest}

\* ----------------------------------------------------------------- state
VARIABLES
    pc,         \* where the process is
    status,     \* "running", or the exit status "zero" / "nonzero"
    all_players,\* the roster
    idx,        \* enumerate index of the for loop (0-based)
    retries,    \* attempt counter of the current player
    success,    \* success flag of the current player
    store,      \* player_stats as seen through the connection
    committed,  \* player_stats as committed to the database file
    errLog,     \* entries appended to error_log.txt since Init
    skipLog,    \* entries appended to skipped_players.txt since Init
    trace,      \* events of the roster entry being processed
    outcome,    \* terminal state of every finished roster entry
    visited,    \* roster positions in the order the loop reached them
    cooldowns,  \* roster positions after which a cooldown was performed
    call,       \* SaveSpec: arguments and result of the latest save_player_data call
    ncalls,     \* SaveSpec: number of save_player_data calls made
    written,    \* SaveSpec: for every key, the parameters last executed for it
    report,     \* ProgressSpec: arguments and figures of the latest update_progress call
    run         \* RunsSpec: number of the run of the script, from 1

vars == <<pc, status, all_players, idx, retries, success, store, committed,
          errLog, skipLog, trace, outcome, visited, cooldowns, call, ncalls, written,
          report, run>>

total == Len(all_players)
player == all_players[idx + 1]
conn == [view |-> store, db |-> committed]

NoCall == [made |-> FALSE, player_id |-> MAIN, player_name |-> "", rows |-> <<>>,
           raised |-> FALSE, before |-> EmptyBag]

NoReport == [made |-> FALSE, progress |-> 0, total |-> 0, avg_time |-> 0,
             batch_size |-> 0, remaining |-> 0,
             cooldowns_left |-> 0, eta_minutes |-> 0, eta_secs |-> 0]

\* the table as a map from key to record
AsMap(table) ==
    [k \in {Key(r) : r \in Recs(table)} |-> CHOOSE r \in Recs(table) : Key(r) = k]

Ev(e, n) == [ev |-> e, n |-> n]

log_error(log, player_id, player_name, kind) ==
    Append(log, [player_id |-> player_id, player_name |-> player_name, error |-> kind])

log_skipped_player(log, player_id, player_name) ==
    Append(log, [player_id |-> player_id, player_name |-> player_name])

\* int(np.ceil(a / b)) for a >= 0 and b >= 1
Ceil(a, b) == (a + b - 1) \div b

Max(a, b) == IF a >= b THEN a ELSE b

\* the integer figures update_progress computes and prints; avg_time is in
\* whole seconds.  percent_done is a float that is only formatted into the
\* printed line; it enters none of the other figures and is not carried.
update_progress(progress, tot, avg_time, cooldown_time, batch_size) ==
    LET remaining == tot - progress
        cooldowns_left == Max(Ceil(remaining, batch_size), 0)
        total_cooldown_time == cooldowns_left * cooldown_time
        eta_seconds == (avg_time * remaining) + total_cooldown_time
    IN  [made |-> TRUE, progress |-> progress, total |-> tot, avg_time |-> avg_time,
         batch_size |-> batch_size,
         remaining |-> remaining, cooldowns_left |-> cooldowns_left,
         eta_minutes |-> eta_seconds \div 60, eta_secs |-> eta_seconds % 60]

Init ==
    /\ pc = "main"
    /\ status = "running"
    /\ all_players \in Rosters
    /\ idx = 0
    /\ retries = 0
    /\ success = FALSE
    /\ store \in InitStores(all_players)
    /\ committed = store
    /\ errLog = <<>>
    /\ skipLog = <<>>
    /\ trace = <<>>
    /\ outcome = <<>>
    /\ visited = <<>>
    /\ cooldowns = {}
    /\ call = NoCall
    /\ ncalls = 0
    /\ written = AsMap(EmptyBag)
    /\ report = NoReport
    /\ run = 1

\* ------------------------------------------------------------------ main
\* precheck_and_setup: a failed makedirs or a failed connect is sys.exit(1),
\* a SystemExit that the handler of the script body does not catch
precheck_and_setup ==
    /\ pc = "main"
    /\ \E folder_ok \in BOOLEAN, connect_ok \in BOOLEAN :
         IF folder_ok /\ connect_ok
         THEN /\ pc' = "setup_database"
              /\ status' = status
         ELSE /\ pc' = "sys_exit"
              /\ status' = "nonzero"
    /\ UNCHANGED <<all_players, idx, retries, success, store, committed, errLog,
                   skipLog, trace, outcome, visited, cooldowns, call, ncalls, written, report, run>>

\* setup_database: when the CREATE TABLE statement raises, the exception
\* leaves main() and is caught by the handler of the script body, which logs
\* it, prints and lets the interpreter end normally
setup_database ==
    /\ pc = "setup_database"
    /\ \E schema_ok \in BOOLEAN :
         IF schema_ok
         THEN /\ pc' = "for"
              /\ UNCHANGED <<status, errLog>>
         ELSE /\ pc' = "fatal"
              /\ status' = "zero"
              /\ errLog' = log_error(errLog, MAIN, "SCRIPT_STARTUP", "startup")
    /\ UNCHANGED <<all_players, idx, retries, success, store, committed,
                   skipLog, trace, outcome, visited, cooldowns, call, ncalls, written, report, run>>

\* ----------------------------------------------------- collect_all_stats
\* while retries <= MAX_RETRIES and not success
WhileCond_strict(r, s) == r < MAX_RETRIES /\ ~s

WhileCond(r, s) == r <= MAX_RETRIES /\ ~s

\* mutant: the give-up test one failure early
Exhausted_early(r) == r >= MAX_RETRIES

\* if retries > MAX_RETRIES, after the increment
Exhausted(r) == r > MAX_RETRIES

\* if (idx + 1) % BATCH_SIZE == 0
CooldownDue(i) == (i + 1) % BATCH_SIZE = 0

\* the request of this pass, with its nominal timeout
\* INITIAL_TIMEOUT * BACKOFF_FACTOR ** retries
FetchEv == Ev("fetch", INITIAL_TIMEOUT * (BACKOFF_FACTOR ^ retries))

\* mutant: the loop head also passes over the players listed in
\* skipped_players.txt
skip_existing_or_skipped ==
    /\ pc = "for"
    /\ idx < total
    /\ \/ player_exists(conn, player.id)
       \/ \E i \in DOMAIN skipLog : skipLog[i].player_id = player.id
    /\ idx' = idx + 1
    /\ trace' = <<>>
    /\ visited' = Append(visited, idx + 1)
    /\ outcome' = Append(outcome, "exists")
    /\ UNCHANGED <<pc, status, all_players, retries, success, store, committed,
                   errLog, skipLog, cooldowns, call, ncalls, written, report, run>>

\* loop head, player already collected: continue
skip_existing ==
    /\ pc = "for"
    /\ idx < total
    /\ player_exists(conn, player.id)
    /\ idx' = idx + 1
    /\ trace' = <<>>
    /\ visited' = Append(visited, idx + 1)
    /\ outcome' = Append(outcome, "exists")
    /\ UNCHANGED <<pc, status, all_players, retries, success, store, committed,
                   errLog, skipLog, cooldowns, call, ncalls, written, report, run>>

\* mutant: the attempt counter is set once, before the for loop
begin_player_noreset ==
    /\ pc = "for"
    /\ idx < total
    /\ ~player_exists(conn, player.id)
    /\ success' = FALSE
    /\ trace' = <<>>
    /\ visited' = Append(visited, idx + 1)
    /\ pc' = "while"
    /\ UNCHANGED <<status, all_players, idx, retries, store, committed, errLog,
                   skipLog, outcome, cooldowns, call, ncalls, written, report, run>>

\* loop head, player not collected: retries = 0, success = False
begin_player ==
    /\ pc = "for"
    /\ idx < total
    /\ ~player_exists(conn, player.id)
    /\ retries' = 0
    /\ success' = FALSE
    /\ trace' = <<>>
    /\ visited' = Append(visited, idx + 1)
    /\ pc' = "while"
    /\ UNCHANGED <<status, all_players, idx, store, committed, errLog, skipLog,
                   outcome, cooldowns, call, ncalls, written, report, run>>

\* mutant: an empty frame handled as a failure of the player
attempt_empty_logged ==
    /\ pc = "while"
    /\ WhileCond(retries, success)
    /\ errLog' = log_error(errLog, player.id, player.full_name, "other")
    /\ skipLog' = log_skipped_player(skipLog, player.id, player.full_name)
    /\ pc' = "jitter"
    /\ trace' = trace \o <<FetchEv, Ev("empty", 0)>>
    /\ outcome' = Append(outcome, "empty")
    /\ UNCHANGED <<status, all_players, idx, retries, success, store, committed,
                   visited, cooldowns, call, ncalls, written, report, run>>

\* a pass of the while body whose request returns an empty frame:
\* success = True; break
attempt_empty ==
    /\ pc = "while"
    /\ WhileCond(retries, success)
    /\ success' = TRUE
    /\ pc' = "jitter"
    /\ trace' = trace \o <<FetchEv, Ev("empty", 0)>>
    /\ outcome' = Append(outcome, "empty")
    /\ UNCHANGED <<status, all_players, idx, retries, store, committed, errLog,
                   skipLog, visited, cooldowns, call, ncalls, written, report, run>>

\* a pass whose request returns rows: save_player_data, then the progress
\* report and success = True; when the save raises, the except Exception
\* clause logs, records the player as skipped and breaks
attempt_rows ==
    /\ pc = "while"
    /\ WhileCond(retries, success)
    /\ \E rows \in LoopBatches \ {<<>>} :
         LET s == save_player_data(conn, player.id, player.full_name, rows)
         IN  /\ store' = s.view
             /\ committed' = s.db
             /\ IF s.raised
                THEN /\ errLog' = log_error(errLog, player.id, player.full_name, "other")
                     /\ skipLog' = log_skipped_player(skipLog, player.id, player.full_name)
                     /\ pc' = "jitter"
                     /\ trace' = trace \o <<FetchEv, Ev("save_raised", idx + 1)>>
                     /\ outcome' = Append(outcome, "other")
                     /\ UNCHANGED success
                ELSE /\ success' = TRUE
                     /\ pc' = "while"
                     /\ trace' = trace \o <<FetchEv, Ev("saved", idx + 1)>>
                     /\ outcome' = Append(outcome, "saved")
                     /\ UNCHANGED <<errLog, skipLog>>
    /\ UNCHANGED <<status, all_players, idx, retries, visited, cooldowns, call,
                   ncalls, written, report, run>>

\* mutant: the transient clause records the player as skipped at every
\* failure, not only at the last one
except_transient_skip_each ==
    /\ pc = "while"
    /\ WhileCond(retries, success)
    /\ retries' = retries + 1
    /\ pc' = "while"
    /\ skipLog' = log_skipped_player(skipLog, player.id, player.full_name)
    /\ IF Exhausted(retries + 1)
       THEN /\ errLog' = log_error(errLog, player.id, player.full_name, "timeout")
            /\ trace' = trace \o <<FetchEv, Ev("transient", 0)>>
            /\ outcome' = Append(outcome, "exhausted")
       ELSE /\ trace' = trace \o <<FetchEv, Ev("transient", 0),
                                   Ev("wait", BACKOFF_FACTOR ^ (retries + 1))>>
            /\ UNCHANGED <<errLog, outcome>>
    /\ UNCHANGED <<status, all_players, idx, success, store, committed, visited,
                   cooldowns, call, ncalls, written, report, run>>

\* except (Timeout, ReadTimeout, ConnectionError): count the failure; give
\* up with a log entry and a skipped entry, or sleep the backoff wait
except_transient ==
    /\ pc = "while"
    /\ WhileCond(retries, success)
    /\ retries' = retries + 1
    /\ pc' = "while"
    /\ IF Exhausted(retries + 1)
       THEN /\ errLog' = log_error(errLog, player.id, player.full_name, "timeout")
            /\ skipLog' = log_skipped_player(skipLog, player.id, player.full_name)
            /\ trace' = trace \o <<FetchEv, Ev("transient", 0)>>
            /\ outcome' = Append(outcome, "exhausted")
       ELSE /\ trace' = trace \o <<FetchEv, Ev("transient", 0),
                                   Ev("wait", BACKOFF_FACTOR ^ (retries + 1))>>
            /\ UNCHANGED <<errLog, skipLog, outcome>>
    /\ UNCHANGED <<status, all_players, idx, success, store, committed, visited,
                   cooldowns, call, ncalls, written, report, run>>

\* mutant: the HTTP handler leaves with continue instead of break
except_http_continue ==
    /\ pc = "while"
    /\ WhileCond(retries, success)
    /\ errLog' = log_error(errLog, player.id, player.full_name, "http")
    /\ skipLog' = log_skipped_player(skipLog, player.id, player.full_name)
    /\ pc' = "for"
    /\ idx' = idx + 1
    /\ trace' = trace \o <<FetchEv, Ev("http", 0)>>
    /\ outcome' = Append(outcome, "http")
    /\ UNCHANGED <<status, all_players, retries, success, store, committed,
                   visited, cooldowns, call, ncalls, written, report, run>>

\* mutant: the HTTP handler without its break
except_http_nobreak ==
    /\ pc = "while"
    /\ WhileCond(retries, success)
    /\ errLog' = log_error(errLog, player.id, player.full_name, "http")
    /\ skipLog' = log_skipped_player(skipLog, player.id, player.full_name)
    /\ pc' = "while"
    /\ trace' = trace \o <<FetchEv, Ev("http", 0)>>
    /\ outcome' = outcome
    /\ UNCHANGED <<status, all_players, idx, retries, success, store, committed,
                   visited, cooldowns, call, ncalls, written, report, run>>

\* except HTTPError: log, record as skipped, break
except_http ==
    /\ pc = "while"
    /\ WhileCond(retries, success)
    /\ errLog' = log_error(errLog, player.id, player.full_name, "http")
    /\ skipLog' = log_skipped_player(skipLog, player.id, player.full_name)
    /\ pc' = "jitter"
    /\ trace' = trace \o <<FetchEv, Ev("http", 0)>>
    /\ outcome' = Append(outcome, "http")
    /\ UNCHANGED <<status, all_players, idx, retries, success, store, committed,
                   visited, cooldowns, call, ncalls, written, report, run>>

\* mutant: no except Exception clause, the error leaves collect_all_stats
\* and ends the run in the handler of the script body
except_other_uncaught ==
    /\ pc = "while"
    /\ WhileCond(retries, success)
    /\ errLog' = log_error(errLog, MAIN, "SCRIPT_STARTUP", "startup")
    /\ pc' = "fatal"
    /\ status' = "zero"
    /\ trace' = trace \o <<FetchEv, Ev("other", 0)>>
    /\ UNCHANGED <<all_players, idx, retries, success, store, committed, skipLog,
                   outcome, visited, cooldowns, call, ncalls, written, report, run>>

\* mutant: the except Exception clause counts the failure and retries, as
\* the transient clause does
except_other_retry ==
    /\ pc = "while"
    /\ WhileCond(retries, success)
    /\ retries' = retries + 1
    /\ pc' = "while"
    /\ IF Exhausted(retries + 1)
       THEN /\ errLog' = log_error(errLog, player.id, player.full_name, "other")
            /\ skipLog' = log_skipped_player(skipLog, player.id, player.full_name)
            /\ trace' = trace \o <<FetchEv, Ev("other", 0)>>
            /\ outcome' = Append(outcome, "other")
       ELSE /\ trace' = trace \o <<FetchEv, Ev("other", 0),
                                   Ev("wait", BACKOFF_FACTOR ^ (retries + 1))>>
            /\ UNCHANGED <<errLog, skipLog, outcome>>
    /\ UNCHANGED <<status, all_players, idx, success, store, committed, visited,
                   cooldowns, call, ncalls, written, report, run>>

\* except Exception, raised by the request: log the traceback, record as
\* skipped, break
except_other ==
    /\ pc = "while"
    /\ WhileCond(retries, success)
    /\ errLog' = log_error(errLog, player.id, player.full_name, "other")
    /\ skipLog' = log_skipped_player(skipLog, player.id, player.full_name)
    /\ pc' = "jitter"
    /\ trace' = trace \o <<FetchEv, Ev("other", 0)>>
    /\ outcome' = Append(outcome, "other")
    /\ UNCHANGED <<status, all_players, idx, retries, success, store, committed,
                   visited, cooldowns, call, ncalls, written, report, run>>

\* the while condition is false: fall through to the polite delay
while_exit ==
    /\ pc = "while"
    /\ ~WhileCond(retries, success)
    /\ pc' = "jitter"
    /\ UNCHANGED <<status, all_players, idx, retries, success, store, committed,
                   errLog, skipLog, trace, outcome, visited, cooldowns, call,
                   ncalls, written, report, run>>

\* time.sleep(JITTER_DELAY())
jitter_delay ==
    /\ pc = "jitter"
    /\ trace' = Append(trace, Ev("jitter", 0))
    /\ pc' = "batch"
    /\ UNCHANGED <<status, all_players, idx, retries, success, store, committed,
                   errLog, skipLog, outcome, visited, cooldowns, call, ncalls, written, report, run>>

\* the batch test is true: the cooldown countdown, then the next entry
cooldown ==
    /\ pc = "batch"
    /\ CooldownDue(idx)
    /\ trace' = Append(trace, Ev("cooldown", idx + 1))
    /\ cooldowns' = cooldowns \cup {idx + 1}
    /\ idx' = idx + 1
    /\ pc' = "for"
    /\ UNCHANGED <<status, all_players, retries, success, store, committed,
                   errLog, skipLog, outcome, visited, call, ncalls, written, report, run>>

\* the batch test is false: the next entry
no_cooldown ==
    /\ pc = "batch"
    /\ ~CooldownDue(idx)
    /\ idx' = idx + 1
    /\ pc' = "for"
    /\ UNCHANGED <<status, all_players, retries, success, store, committed,
                   errLog, skipLog, trace, outcome, visited, cooldowns, call,
                   ncalls, written, report, run>>

\* the roster is exhausted: main returns and the interpreter exits; the
\* connection is never closed, so whatever was not committed is lost
finish ==
    /\ pc = "for"
    /\ idx >= total
    /\ pc' = "finished"
    /\ status' = "zero"
    /\ store' = committed
    /\ UNCHANGED <<all_players, idx, retries, success, committed, errLog, skipLog,
                   trace, outcome, visited, cooldowns, call, ncalls, written, report, run>>

Next ==
    \/ precheck_and_setup
    \/ setup_database
    \/ skip_existing
    \/ begin_player
    \/ attempt_empty
    \/ attempt_rows
    \/ except_transient
    \/ except_http
    \/ except_other
    \/ while_exit
    \/ jitter_delay
    \/ cooldown
    \/ no_cooldown
    \/ finish

Spec == Init /\ [][Next]_vars

\* the process is never suspended for ever: every sleep ends and every
\* request returns or raises
FairSpec == Spec /\ WF_vars(Next)

\* ------------------------------------------- save_player_data on its own
\* SaveSpec calls save_player_data, up to MaxCalls times on one connection,
\* for any of two players and any batch, on a table left by earlier runs.
SavePlayers == AllPlayers(2)

\* the statements executed by one call, as a map: rows of the accepted width
\* in order, up to the first one that cannot be bound
RECURSIVE Executed(_, _, _, _, _)
Executed(w, player_id, player_name, rows, i) ==
    IF i > Len(rows) THEN w
    ELSE IF Len(rows[i]) # ROW_WIDTH
         THEN Executed(w, player_id, player_name, rows, i + 1)
         ELSE LET params == Params(player_id, player_name, rows[i])
                  k == Key(params)
              IN  IF ~CanBind(params) THEN w
                  ELSE Executed([x \in DOMAIN w \cup {k} |-> IF x = k THEN params ELSE w[x]],
                                player_id, player_name, rows, i + 1)

SaveInit ==
    /\ pc = "save_player_data"
    /\ status = "running"
    /\ all_players = SavePlayers
    /\ idx = 0
    /\ retries = 0
    /\ success = FALSE
    /\ store \in InitStores(all_players)
    /\ committed = store
    /\ errLog = <<>>
    /\ skipLog = <<>>
    /\ trace = <<>>
    /\ outcome = <<>>
    /\ visited = <<>>
    /\ cooldowns = {}
    /\ call = NoCall
    /\ ncalls = 0
    /\ written = AsMap(store)
    /\ report = NoReport
    /\ run = 1

save_call ==
    /\ pc = "save_player_data"
    /\ ~call.made
    /\ ncalls < MaxCalls
    /\ \E i \in 1..total, rows \in Batches :
         LET p == all_players[i]
             s == save_player_data(conn, p.id, p.full_name, rows)
         IN  /\ store' = s.view
             /\ committed' = s.db
             /\ call' = [made |-> TRUE, player_id |-> p.id, player_name |-> p.full_name,
                         rows |-> rows, raised |-> s.raised, before |-> store]
             /\ written' = Executed(written, p.id, p.full_name, rows, 1)
    /\ ncalls' = ncalls + 1
    /\ UNCHANGED <<pc, status, all_players, idx, retries, success, errLog, skipLog,
                   trace, outcome, visited, cooldowns, report, run>>

\* the caller drops the arguments of the finished call
save_return ==
    /\ pc = "save_player_data"
    /\ call.made
    /\ call' = NoCall
    /\ UNCHANGED <<pc, status, all_players, idx, retries, success, store, committed,
                   errLog, skipLog, trace, outcome, visited, cooldowns, ncalls, written, report, run>>

SaveNext ==
    \/ save_call
    \/ save_return

SaveSpec == SaveInit /\ [][SaveNext]_vars

\* ------------------------------------------------------------------
\* update_progress on its own: the report of any position of any roster
\* size, for any batch size.

\* average seconds per player so far
AvgTimes == {1, 45}

ProgressInit ==
    /\ pc = "update_progress"
    /\ status = "running"
    /\ all_players = <<>>
    /\ idx = 0
    /\ retries = 0
    /\ success = FALSE
    /\ store = EmptyBag
    /\ committed = EmptyBag
    /\ errLog = <<>>
    /\ skipLog = <<>>
    /\ trace = <<>>
    /\ outcome = <<>>
    /\ visited = <<>>
    /\ cooldowns = {}
    /\ call = NoCall
    /\ ncalls = 0
    /\ written = AsMap(store)
    /\ report = NoReport
    /\ run = 1

progress_call ==
    /\ pc = "update_progress"
    /\ \E tot \in 1..MaxTotal, batch_size \in 1..MaxBatch, avg_time \in AvgTimes :
         \E progress \in 1..tot :
            report' = update_progress(progress, tot, avg_time, COOLDOWN_TIME, batch_size)
    /\ UNCHANGED <<pc, status, all_players, idx, retries, success, store, committed,
                   errLog, skipLog, trace, outcome, visited, cooldowns, call, ncalls,
                   written, run>>

ProgressNext == progress_call

ProgressSpec == ProgressInit /\ [][ProgressNext]_vars

\* ------------------------------------------------------------------
\* Consecutive runs of the script over the same roster and the same files:
\* the database keeps what was committed, the two log files are appended to.

\* two players on a new database, or BATCH_SIZE players of which all but
\* the last were collected before
RunRosters == {AllPlayers(2), AllPlayers(BATCH_SIZE)}

RunsInit ==
    /\ pc = "main"
    /\ status = "running"
    /\ all_players \in RunRosters
    /\ idx = 0
    /\ retries = 0
    /\ success = FALSE
    /\ store = SetToBag({OldRecord(all_players[i]) : i \in Resumed(all_players)})
    /\ committed = store
    /\ errLog = <<>>
    /\ skipLog = <<>>
    /\ trace = <<>>
    /\ outcome = <<>>
    /\ visited = <<>>
    /\ cooldowns = {}
    /\ call = NoCall
    /\ ncalls = 0
    /\ written = AsMap(EmptyBag)
    /\ report = NoReport
    /\ run = 1

\* the script is started again after a run that reached the end of the roster
restart ==
    /\ pc = "finished"
    /\ run < MaxRuns
    /\ run' = run + 1
    /\ pc' = "main"
    /\ status' = "running"
    /\ idx' = 0
    /\ retries' = 0
    /\ success' = FALSE
    /\ store' = committed
    /\ trace' = <<>>
    /\ outcome' = <<>>
    /\ visited' = <<>>
    /\ cooldowns' = {}
    /\ UNCHANGED <<all_players, committed, errLog, skipLog, call, ncalls, written,
                   report>>

RunsNext ==
    \/ Next
    \/ restart

RunsSpec == RunsInit /\ [][RunsNext]_vars

\* ---------------------------------------------------------------- helpers
Terminal == pc \in {"finished", "sys_exit", "fatal"}

\* number of events of one kind in a trace
NEv(t, e) == Cardinality({i \in DOMAIN t : t[i].ev = e})

\* number of entries a log holds for one player id
NLog(log, id) == Cardinality({i \in DOMAIN log : log[i].player_id = id})

HasRow(table, id) == \E r \in Recs(table) : r[1] = id

\* the roster entry the loop reached last
current == all_players[visited[Len(visited)]]

\* ------------------------------------------------------------------ claims

\* C1 -- Resumability.  When the loop reaches a roster entry whose player id
\* has a row in the store, its next step is the next entry and no request is
\* issued for the entry; and every request that is issued is for the entry
\* under the loop, whose id has no row in the store.
C1_Resumability ==
    [][ /\ (pc = "for" /\ idx < total /\ HasRow(store, player.id))
            => (pc' = "for" /\ idx' = idx + 1 /\ NEv(trace', "fetch") = 0)
        /\ (NEv(trace', "fetch") > NEv(trace, "fetch"))
            => (pc = "while" /\ idx' = idx /\ ~HasRow(store, player.id)) ]_vars

\* roster [1, 2] with player 1 stored: the run ends with 1 skipped and only
\* 2 fetched
C1_Witness ==
    /\ pc = "finished"
    /\ total = 2
    /\ outcome = <<"exists", "saved">>

\* C2 -- A player whose requests failed with more than MAX_RETRIES
\* consecutive transient failures has exactly one entry in the skipped log
\* and one in the error log of the run, and no row in the store.
C2_ExhaustedLoggedOnce ==
    /\ \A k \in 1..Len(outcome) :
         outcome[k] = "exhausted" =>
           /\ NLog(skipLog, all_players[k].id) = 1
           /\ NLog(errLog, all_players[k].id) = 1
           /\ ~HasRow(store, all_players[k].id)
           /\ ~HasRow(committed, all_players[k].id)
    /\ (visited # <<>> /\ NEv(trace, "transient") > MAX_RETRIES) =>
           /\ Len(outcome) = Len(visited)
           /\ outcome[Len(visited)] = "exhausted"
           /\ NEv(trace, "fetch") = NEv(trace, "transient")

\* player 2 of roster [1, 2] timed out 4 times; the run went on and ended
C2_Witness ==
    /\ pc = "finished"
    /\ total = 2
    /\ outcome[2] = "exhausted"
    /\ NEv(trace, "transient") = MAX_RETRIES + 1
    /\ skipLog = <<[player_id |-> all_players[2].id, player_name |-> all_players[2].full_name]>>

\* C3 as stated -- a player whose fetch ends with an HTTP-class error had
\* exactly one request in the run.
C3_Original ==
    (NEv(trace, "http") > 0) => NEv(trace, "fetch") = 1

\* C3 amended -- an HTTP-class error never triggers a retry: no request for
\* the player follows it, the loop has left the while statement, and the
\* player's requests are the one that got the HTTP error and one for every
\* transient failure before it (at most MAX_RETRIES).
C3_HttpNoRetry ==
    \A i \in DOMAIN trace :
        trace[i].ev = "http" =>
          /\ \A j \in DOMAIN trace : j > i => trace[j].ev # "fetch"
          /\ pc # "while"
          /\ NEv(trace, "http") = 1
          /\ NEv(trace, "fetch") = 1 + NEv(trace, "transient")
          /\ NEv(trace, "transient") <= MAX_RETRIES

\* an HTTP error on the request that followed two timeouts
C3_Witness ==
    /\ NEv(trace, "http") = 1
    /\ NEv(trace, "transient") = 2
    /\ NEv(trace, "fetch") = 3
    /\ pc = "for"

\* positions of the rows of a call that have the accepted width, and the
\* record a row maps to
Accepted(c) == {i \in DOMAIN c.rows : Len(c.rows[i]) = ROW_WIDTH}
RecOf(c, i) == Params(c.player_id, c.player_name, c.rows[i])

\* C4 as stated -- after a call of save_player_data that returned, no row of
\* a width other than 27 has produced a stored record and every other row of
\* the batch is in the store.
C4_Original ==
    (call.made /\ ~call.raised) =>
      /\ \A r \in Recs(store) \ Recs(call.before) :
            \E i \in Accepted(call) : r = RecOf(call, i)
      /\ \A i \in Accepted(call) : BagIn(RecOf(call, i), store)

\* C4 amended -- a row of a width other than 27 never produces a stored
\* record; after a call that returned, every width-27 row of the batch is
\* stored and committed unless a later width-27 row of the same batch has the
\* same season id: the later row is then stored in its place when the season
\* id is not NULL, and nothing is stated about the earlier row when it is.
C4_WidthFilter ==
    call.made =>
      /\ \A r \in Recs(store) \ Recs(call.before) :
            \E i \in Accepted(call) : r = RecOf(call, i)
      /\ ~call.raised =>
           \A i \in Accepted(call) :
              (\A j \in Accepted(call) : j > i => call.rows[j][2] # call.rows[i][2])
                 => (BagIn(RecOf(call, i), store) /\ BagIn(RecOf(call, i), committed))

\* a batch of one row of width 28 and one good row: only the good row was
\* stored
C4_Witness ==
    /\ call.made /\ ~call.raised
    /\ Len(call.rows) = 2
    /\ call.rows[1] = WideRow
    /\ 2 \in Accepted(call)
    /\ ~BagIn(RecOf(call, 2), call.before)
    /\ store = call.before (+) SetToBag({RecOf(call, 2)})

\* C5 as stated -- Upsert.  The store never holds two records with the same
\* (player_id, season_id) key; writing a row whose key is already there, from
\* an earlier run, an earlier call or an earlier row of the batch, does not
\* fail but replaces the prior record, so the record stored for a key is the
\* one last written for it.
C5_Upsert ==
    /\ \A r \in Recs(store) : CopiesIn(r, store) = 1
    /\ \A r1 \in Recs(store), r2 \in Recs(store) : Key(r1) = Key(r2) => r1 = r2
    /\ Recs(store) = {written[k] : k \in DOMAIN written}
    /\ (call.made /\ call.raised) =>
          \E i \in Accepted(call) : ~CanBind(RecOf(call, i))

\* C6 as stated -- a cooldown is performed after the k-th roster entry for
\* exactly the k in 1..N that are multiples of BATCH_SIZE, whatever the store
\* held at the start, so a finished run has performed N div BATCH_SIZE
\* cooldowns.
C6_CooldownEveryBatch ==
    /\ pc \in {"for", "finished"} =>
          cooldowns = {k \in 1..idx : k % BATCH_SIZE = 0}
    /\ pc = "finished" => Cardinality(cooldowns) = total \div BATCH_SIZE

\* C7 -- A request that succeeds with an empty result ends the player at
\* once as a success: no request and no backoff wait follow it, nothing is
\* stored for the player, nothing is logged for the player, and the loop has
\* left the while statement for the delay and the next entry.
C7_EmptyIsTerminalSuccess ==
    \A i \in DOMAIN trace :
        trace[i].ev = "empty" =>
          /\ \A j \in DOMAIN trace : j > i => trace[j].ev \notin {"fetch", "wait"}
          /\ pc \in {"jitter", "batch", "for", "finished"}
          /\ success
          /\ Len(outcome) = Len(visited) /\ outcome[Len(visited)] = "empty"
          /\ ~HasRow(store, current.id)
          /\ ~HasRow(committed, current.id)
          /\ NLog(errLog, current.id) = 0
          /\ NLog(skipLog, current.id) = 0

\* the first player's request returned an empty frame and the loop stands at
\* the next entry
C7_Witness ==
    /\ pc = "for"
    /\ idx = 1 /\ total > 1
    /\ NEv(trace, "empty") = 1
    /\ outcome = <<"empty">>

Ident(n) == [i \in 1..n |-> i]

\* C8 -- Once the loop is entered the run terminates, whatever the requests
\* do; the entries are reached in roster order, each once, and when the run
\* ends every entry has been reached and has its terminal state.
C8_RunCompletes ==
    /\ [](visited = Ident(Len(visited)))
    /\ [](pc = "finished" => (visited = Ident(total) /\ Len(outcome) = total))
    /\ ((pc = "for") ~> (pc = "finished"))

\* a run over two players that both failed, one after four timeouts and one
\* on an unexpected exception, and ended
C8_Witness ==
    /\ pc = "finished"
    /\ outcome = <<"exhausted", "other">>
    /\ visited = <<1, 2>>
    /\ Len(errLog) = 2

\* C9 as stated -- a failure of the folder creation, of the connection or of
\* the schema statement ends the process with a non-zero exit status, with
\* no request issued and no player processed.
C9_SetupFailureFatal ==
    pc \in {"sys_exit", "fatal"} =>
      /\ status = "nonzero"
      /\ visited = <<>>
      /\ trace = <<>>

\* C10 -- After a roster player for whom a request was issued, whatever the
\* outcome, the loop sleeps exactly one jitter delay, after the player's last
\* request and before it reaches the next entry.
C10_OneJitterPerFetchedPlayer ==
    /\ NEv(trace, "jitter") <= 1
    /\ pc = "while" => NEv(trace, "jitter") = 0
    /\ (pc \in {"for", "finished"} /\ NEv(trace, "fetch") > 0) =>
          /\ NEv(trace, "jitter") = 1
          /\ \A i \in DOMAIN trace, j \in DOMAIN trace :
                (trace[i].ev = "jitter" /\ trace[j].ev = "fetch") => j < i

\* the loop stands at the second entry after the first player ended with an
\* HTTP error and one jitter delay
C10_Witness ==
    /\ pc = "for"
    /\ idx = 1 /\ total > 1
    /\ outcome = <<"http">>
    /\ NEv(trace, "jitter") = 1

\* C11 as stated -- every save_player_data call is atomic: the rows of a call
\* that returned are committed together, and no row of a call that raised
\* part-way through its rows is ever committed, not even by the commit of a
\* later player's call.
C11_AtomicSave ==
    \A k \in 1..Len(outcome) :
        LET id == all_players[k].id IN
        /\ outcome[k] = "other" => ~HasRow(committed, id)
        /\ outcome[k] = "saved" =>
              \A r \in Recs(committed) \cup Recs(store) :
                  r[1] = id => CopiesIn(r, committed) = CopiesIn(r, store)

\* number of events of one kind among the first i events of a trace
NUpTo(t, i, e) == Cardinality({j \in 1..i : t[j].ev = e})

\* C12 -- Retry budget.  A player gets at most MAX_RETRIES + 1 = 4 attempts.
\* After the 1st, 2nd and 3rd consecutive transient failure exactly one
\* backoff wait follows and then another attempt; after the 4th there is no
\* wait and no attempt, and a player ends as exhausted exactly when 4
\* attempts in a row ended in a transient failure.
C12_RetryBudget ==
    /\ MAX_RETRIES + 1 = 4
    /\ NEv(trace, "fetch") <= 4
    /\ \A i \in DOMAIN trace :
         trace[i].ev = "transient" =>
           LET n == NUpTo(trace, i, "transient") IN
           /\ i > 1 /\ trace[i - 1].ev = "fetch"
           /\ NUpTo(trace, i, "fetch") = n
           /\ n <= 3 =>
                /\ i + 1 <= Len(trace)
                /\ trace[i + 1].ev = "wait"
                /\ i + 2 <= Len(trace) => trace[i + 2].ev = "fetch"
                /\ i + 2 > Len(trace) =>
                      pc = "while" /\ WhileCond(retries, success)
           /\ n = 4 =>
                /\ NEv(trace, "wait") = 3
                /\ \A j \in DOMAIN trace :
                      j > i => trace[j].ev \notin {"wait", "fetch"}
    /\ \A i \in DOMAIN trace :
         trace[i].ev = "wait" => i > 1 /\ trace[i - 1].ev = "transient"
    /\ (visited # <<>> /\ Len(outcome) = Len(visited)) =>
         (outcome[Len(visited)] = "exhausted"
             <=> NEv(trace, "transient") = 4)
    /\ (visited # <<>> /\ Len(outcome) < Len(visited)) =>
         NEv(trace, "transient") < 4

\* a player was tried 4 times with 3 waits in between, and ended exhausted
C12_Witness ==
    /\ visited # <<>>
    /\ Len(outcome) = Len(visited)
    /\ outcome[Len(visited)] = "exhausted"
    /\ NEv(trace, "fetch") = 4
    /\ NEv(trace, "wait") = 3
    /\ trace[Len(trace)].ev = "transient"

\* C13 -- An exception that is neither transient nor an HTTP error, raised by
\* the request or by the save, fails the player at once whatever the attempt
\* counter is: no wait and no attempt follows, and the player has exactly one
\* entry in the error log and one in the skipped log.
C13_OtherErrorFailsAtOnce ==
    \A i \in DOMAIN trace :
        trace[i].ev \in {"other", "save_raised"} =>
          /\ \A j \in DOMAIN trace :
                j > i => trace[j].ev \notin {"fetch", "wait"}
          /\ pc # "while"
          /\ Len(outcome) = Len(visited)
          /\ outcome[Len(visited)] = "other"
          /\ NLog(errLog, current.id) = 1
          /\ NLog(skipLog, current.id) = 1

\* after two timeouts the third request raised an unexpected exception
C13_Witness ==
    /\ NEv(trace, "transient") = 2
    /\ NEv(trace, "other") = 1
    /\ NEv(trace, "fetch") = 3
    /\ retries = 2
    /\ pc = "jitter"
    /\ NLog(skipLog, current.id) = 1

\* the records a step adds to the connection's view or to the database file
Added ==
    {r \in Recs(store') : CopiesIn(r, store') > CopiesIn(r, store)}
    \cup {r \in Recs(committed') : CopiesIn(r, committed') > CopiesIn(r, committed)}

\* C14 as stated -- Within one run the store is written at most once per
\* roster player and only directly after a request returned a non-empty
\* result: a step that adds records adds records of the player under the
\* loop only, that player was not written before and ends as saved; nothing
\* is written for a player that was already collected, returned an empty
\* result or ended as failed.
C14_WriteOncePerPlayer ==
    [][ Added # {} =>
          /\ pc = "while"
          /\ \A r \in Added : r[1] = player.id
          /\ ~HasRow(store, player.id)
          /\ NEv(trace, "saved") = 0
          /\ trace'[Len(trace')].ev = "saved"
          /\ outcome' = Append(outcome, "saved") ]_vars

\* C15 as stated -- For 1 <= progress <= total and batch_size >= 1 the
\* cooldown count update_progress adds to the ETA equals the number of
\* roster positions k with progress <= k <= total and k mod batch_size = 0.
C15_CooldownsLeft ==
    report.made =>
        report.cooldowns_left =
            Cardinality({k \in report.progress..report.total :
                            k % report.batch_size = 0})

\* C16 -- Exponential backoff.  The attempt made after a transient failures
\* of the same player has the nominal timeout 20 * 2^a, that is 20, 40, 80,
\* 160 for a = 0..3, and the wait before attempt a >= 1 has the nominal
\* factor 2, 4, 8.  The counter starts at 0 for every player, so no nominal
\* timeout exceeds 160.
C16_BackoffSchedule ==
    /\ \A i \in DOMAIN trace :
         trace[i].ev = "fetch" =>
           LET a == NUpTo(trace, i, "transient") IN
           /\ a \in 0..3
           /\ trace[i].n = <<20, 40, 80, 160>>[a + 1]
           /\ trace[i].n <= 160
    /\ \A i \in DOMAIN trace :
         trace[i].ev = "wait" =>
           LET a == NUpTo(trace, i, "transient") IN
           /\ a \in 1..3
           /\ trace[i].n = <<2, 4, 8>>[a]
    /\ (pc = "while" /\ trace = <<>>) => retries = 0

\* the player before ran out of attempts; this one starts again at 20 and
\* reaches the timeout of 160 after waits of factor 2, 4 and 8
C16_Witness ==
    /\ Len(visited) = 2
    /\ outcome[1] = "exhausted"
    /\ Len(trace) >= 10
    /\ trace[1] = Ev("fetch", 20)
    /\ trace[3] = Ev("wait", 2)
    /\ trace[4] = Ev("fetch", 40)
    /\ trace[6] = Ev("wait", 4)
    /\ trace[7] = Ev("fetch", 80)
    /\ trace[9] = Ev("wait", 8)
    /\ trace[10] = Ev("fetch", 160)

\* C17 -- Across consecutive runs over the same roster, whether a player is
\* fetched depends only on the store and never on the skipped log: at the
\* loop head of any run a player with a stored row, even one season of it,
\* is passed over, a player with no stored row gets a request, and no
\* request is ever made for a player with a stored row.
C17_RefetchByStoreOnly ==
    [][ /\ (pc = "for" /\ idx < total) =>
             IF HasRow(store, player.id)
             THEN /\ pc' = "for"
                  /\ idx' = idx + 1
                  /\ trace' = <<>>
             ELSE /\ pc' = "while"
                  /\ idx' = idx
                  /\ WhileCond(retries', success')
        /\ (pc = "while" /\ WhileCond(retries, success)) =>
             NEv(trace', "fetch") = NEv(trace, "fetch") + 1
        /\ NEv(trace', "fetch") > NEv(trace, "fetch") =>
             ~HasRow(store, player.id) /\ ~HasRow(committed, player.id)
      ]_vars

\* second run: player 1, skipped by the first run and without a row, is
\* requested again; player 2 was saved by the first run
C17_Witness ==
    /\ run = 2
    /\ visited = <<1>>
    /\ outcome = <<>>
    /\ NEv(trace, "fetch") = 1
    /\ NLog(skipLog, all_players[1].id) = 1
    /\ ~HasRow(committed, all_players[1].id)
    /\ HasRow(committed, all_players[2].id)

\* the terminal states that count as FAILED
Failed == {"exhausted", "http", "other"}

\* C18 -- Log pairing.  Whenever the loop is between two roster entries the
\* skipped log and the error log of the run have the same number of
\* entries; every finished entry has one entry in each log when its
\* terminal state is FAILED (retries exhausted, HTTP error, other error) and
\* none in either when it was saved, returned nothing or was already
\* collected.
C18_LogPairing ==
    pc \in {"for", "finished"} =>
        /\ Len(skipLog) = Len(errLog)
        /\ Len(outcome) = Len(visited)
        /\ \A k \in 1..Len(outcome) :
             LET id == all_players[visited[k]].id
                 n == IF outcome[k] \in Failed THEN 1 ELSE 0
             IN  /\ NLog(skipLog, id) = n
                 /\ NLog(errLog, id) = n
        /\ \A i \in DOMAIN skipLog :
             \E k \in 1..Len(outcome) :
                 skipLog[i].player_id = all_players[visited[k]].id

\* a run over two kinds of end: the player whose retries ran out is in both
\* logs, the saved player is in none
C18_Witness ==
    /\ pc = "finished"
    /\ total = 2
    /\ outcome[1] = "exhausted"
    /\ outcome[2] = "saved"
    /\ Len(skipLog) = 1
    /\ Len(errLog) = 1
    /\ skipLog[1].player_id = all_players[1].id

\* the (player id, season id) keys of a table
Keys(table) == {Key(r) : r \in Recs(table)}

\* C19 -- Frame of a save.  In the store as the collector reads it, a save
\* for player p changes only records whose player id is p and leaves the
\* records of every other player as they were; only a save changes it while
\* the process runs, no step removes a key from it before the process ends,
\* and no step ever removes a key from the database file.  In the database
\* file a step keeps every record of the other players and adds, besides
\* records of p, only records the collector already read in the store.
C19_SaveFrame ==
    [][ /\ (store' # store /\ pc' # "finished") =>
             /\ pc = "while"
             /\ \A r \in Recs(store) \cup Recs(store') :
                   r[1] # player.id => CopiesIn(r, store) = CopiesIn(r, store')
        /\ committed' # committed =>
             /\ pc = "while"
             /\ \A r \in Recs(committed) :
                   r[1] # player.id => CopiesIn(r, committed') >= CopiesIn(r, committed)
             /\ \A r \in Recs(committed') :
                   CopiesIn(r, committed') > CopiesIn(r, committed) =>
                      \/ r[1] = player.id
                      \/ CopiesIn(r, committed') <= CopiesIn(r, store)
        /\ pc' # "finished" => Keys(store) \subseteq Keys(store')
        /\ Keys(committed) \subseteq Keys(committed')
      ]_vars

\* player 2 was saved while player 1, collected by an earlier run, kept its
\* record
C19_Witness ==
    /\ total >= 2
    /\ Len(outcome) = 2
    /\ outcome[1] = "exists"
    /\ outcome[2] = "saved"
    /\ BagIn(OldRecord(all_players[1]), store)
    /\ BagIn(OldRecord(all_players[1]), committed)
    /\ HasRow(store, all_players[2].id)

TypeOK ==
    /\ pc \in {"main", "setup_database", "for", "while", "jitter", "batch",
               "finished", "sys_exit", "fatal", "save_player_data",
               "update_progress"}
    /\ status \in {"running", "zero", "nonzero"}
    /\ idx \in 0..total
    /\ retries \in 0..(MAX_RETRIES + 1)
    /\ success \in BOOLEAN
    /\ Len(outcome) <= total
    /\ cooldowns \subseteq 1..total
    /\ run \in 1..MaxRuns
    /\ report.made \in BOOLEAN
    /\ Keys(committed) \subseteq Keys(store)
====
